---- MODULE Spec2Model ----
(***************************************************************************)
(* State-machine model of the monitor Scheduler of agento                  *)
(* (src/monitor/Monitor.go): the administrative CRUD operations on the     *)
(* Monitor collection, the 100ms polling loop with its in-flight set, and  *)
(* the goroutine dispatched for every due Monitor.                         *)
(*                                                                         *)
(* Time is an integer; one unit is half a tick period.  ZeroTime stands    *)
(* for Go's zero time.Time.  The wall clock is far more than the largest   *)
(* Duration away from the zero time, so time.Time.Sub saturates whenever   *)
(* exactly one operand is the zero time.                                   *)
(***************************************************************************)
EXTENDS Integers, Sequences, FiniteSets, TLC

(* ------------------------------ bounds -------------------------------- *)
\* ticks the polling loop receives
MaxTicks == 3
\* AddMonitor calls an administrator makes
MaxAdds == 2
\* the most lines one output of a munin plugin command has
MaxLines == 2
\* the most key/value pairs a MuninPluginRunner collects
MaxKv == 4
\* stands for the largest time.Duration: larger than every interval and every
\* difference of two wall-clock times of the model
MaxDuration == 100

(* ----------------------- program constants ---------------------------- *)
\* time.Tick(time.Millisecond * 100), in model time units
TickPeriod == 2
\* length of the hexadecimal form of a bson.ObjectId
HexLen == 24

ZeroTime == 0
\* Interval values an administrator gives a Monitor (positive, as the data
\* model requires): shorter than a tick period, and longer than one.
Intervals == {1, 3}

HexChars == <<"0", "1", "2", "3", "4", "5", "6", "7",
              "8", "9", "a", "b", "c", "d", "e", "f">>

VARIABLES
    store,      \* monitorCollection: the set of stored Monitor documents
    nextId,     \* the counter behind bson.NewObjectId
    assigned,   \* the identifiers AddMonitor has assigned, in order
    t,          \* the loop variable t of "for t := range ticker"
    loop,       \* position of the polling loop: "wait", "fetch" or "scan"
    monitors,   \* the snapshot fetched by the current tick
    idx,        \* position of "for _, mon := range monitors"
    inFlight,   \* the inFlight map of Loop
    execs,      \* the dispatched goroutines that have not returned
    lastOp,     \* the operation or step taken last, with its arguments and result
    emitted,    \* what the last step handed to Broadcaster.Broadcast
    written,    \* what the last step handed to server.WritePoints
    dispatched, \* history: <<identifier, NextCheck>> of each Monitor's latest dispatch
    caller,     \* history: the Monitor an administrator last passed to an
                \* UpdateMonitor that succeeded, and whether an update
                \* of the Scheduler has replaced it in the store since
    hosts,      \* hostCollection: the identifiers of the stored Hosts
    registry,   \* plugins.GetTransports(): the keys of the registered transports
    kv          \* MuninPluginRunner.kv of one long-lived runner

\* the state outside the Monitor collection and the polling loop
others == <<hosts, registry, kv>>

vars == <<store, nextId, assigned, t, loop, monitors, idx, inFlight, execs, lastOp,
          emitted, written, dispatched, caller, others>>

(* ------------------------ identifiers --------------------------------- *)
RECURSIVE Hex(_, _)
\* bson.ObjectId.Hex: the identifier n as k hexadecimal digits
Hex(n, k) ==
    IF k = 0 THEN <<>>
    ELSE Hex(n \div 16, k - 1) \o <<HexChars[(n % 16) + 1]>>

IsHexChar(c) == \E i \in 1..Len(HexChars) : HexChars[i] = c

\* bson.IsObjectIdHex
IsObjectIdHex(s) ==
    /\ Len(s) = HexLen
    /\ \A i \in 1..Len(s) : IsHexChar(s[i])

DigitOf(c) == (CHOOSE i \in 1..Len(HexChars) : HexChars[i] = c) - 1

RECURSIVE HexVal(_)
HexVal(s) ==
    IF s = <<>> THEN 0
    ELSE 16 * HexVal(SubSeq(s, 1, Len(s) - 1)) + DigitOf(s[Len(s)])

\* bson.ObjectIdHex
ObjectIdHex(s) == HexVal(s)

\* the identifiers AddMonitor can assign
Ids == 1..MaxAdds

\* the identifiers of the Monitors the polling loop starts with
LoopIds == {1, 2}

\* identifier strings an administrator passes: the well-formed ones, and
\* malformed ones (empty, one digit short, one digit long, a non-hex digit)
WellFormed == {Hex(n, HexLen) : n \in Ids}
Malformed ==
    { <<>>,
      Hex(1, HexLen - 1),
      Hex(1, HexLen + 1),
      Hex(0, HexLen - 1) \o <<"g">> }
IdStrings == WellFormed \cup Malformed

(* ------------------------------ time ---------------------------------- *)
\* time.Time.Sub, saturating at the largest and smallest Duration
Sub(a, b) ==
    IF a = b THEN 0
    ELSE IF b = ZeroTime THEN MaxDuration
    ELSE IF a = ZeroTime THEN -MaxDuration
    ELSE a - b

\* time.Time.Add
Add(a, d) == a + d

(* ------------------------------ store --------------------------------- *)
Doc(id, iv, lc, nc, lp) ==
    [Id |-> id, Interval |-> iv, LastCheck |-> lc, NextCheck |-> nc,
     LastPoints |-> lp]

NoPoints == "nil"

FindId(s, id) == {d \in s : d.Id = id}
\* an update that does not reach the collection
UpdateIdLost(s, id, doc) == s

\* Collection.UpdateId: replaces the whole document; ErrNotFound otherwise
UpdateId(s, id, doc) ==
    IF FindId(s, id) = {} THEN s ELSE (s \ FindId(s, id)) \cup {doc}

\* Collection.Insert: a document with a known _id is a duplicate key
Insert(s, doc) ==
    IF FindId(s, doc.Id) = {} THEN s \cup {doc} ELSE s

\* Collection.RemoveId
RemoveId(s, id) == s \ FindId(s, id)

RECURSIVE SortedDocs(_)
\* Find(bson.M{}).All: the documents in _id order
SortedDocs(s) ==
    IF s = {} THEN <<>>
    ELSE LET d == CHOOSE x \in s : \A y \in s : x.Id <= y.Id
         IN  <<d>> \o SortedDocs(s \ {d})

\* no UpdateMonitor of an administrator is outstanding
NoCall == [Id |-> 0, mon |-> <<>>, replaced |-> FALSE]

\* the reserved identifier of the local Host, "000000000000000000000000"
LocalHostId == 0

LocalTransport == "localtransport"

\* the label of a step: the operation, the Monitor identifier it is about, the
\* tick time it works with, the error it returned or logged, and its argument:
\* the identifier string of a delete, the snapshot record of a scan step
Op(op, id, T, err, arg) ==
    [op |-> op, id |-> id, T |-> T, err |-> err, arg |-> arg]

Nil == "nil"
ErrorInvalidId == "Invalid id"
StoreError == "store error"
JobError == "job error"
SinkError == "sink error"

Event(name, data) == [name |-> name, data |-> data]

(* ------------------------------ Init ---------------------------------- *)
\* a Monitor as AddMonitor stores it for an administrator: the identifier
\* assigned, the interval given, no check made yet
Fresh(id, iv) == Doc(id, iv, ZeroTime, ZeroTime, NoPoints)

\* the Monitor collections Loop starts with: the Monitors of LoopIds, added
\* earlier, each with one of the intervals
InitStores ==
    { {Fresh(id, f[id]) : id \in LoopIds} : f \in [LoopIds -> Intervals] }

\* Loop starts on a populated collection
Init ==
    /\ store \in InitStores
    /\ nextId = Cardinality(LoopIds) + 1
    /\ assigned = [i \in 1..Cardinality(LoopIds) |-> i]
    /\ t = ZeroTime
    /\ loop = "wait"
    /\ monitors = <<>>
    /\ idx = 0
    /\ inFlight = {}
    /\ execs = {}
    /\ lastOp = Op("NewScheduler", 0, ZeroTime, Nil, <<>>)
    /\ emitted = <<>>
    /\ written = <<>>
    /\ dispatched = {}
    /\ caller = NoCall
    /\ hosts = {LocalHostId}
    /\ registry = {LocalTransport}
    /\ kv = <<>>

\* an empty collection, with the administrative operations to come
AdminInit ==
    /\ store = {}
    /\ nextId = 1
    /\ assigned = <<>>
    /\ t = ZeroTime
    /\ loop = "wait"
    /\ monitors = <<>>
    /\ idx = 0
    /\ inFlight = {}
    /\ execs = {}
    /\ lastOp = Op("NewScheduler", 0, ZeroTime, Nil, <<>>)
    /\ emitted = <<>>
    /\ written = <<>>
    /\ dispatched = {}
    /\ caller = NoCall
    /\ hosts = {LocalHostId}
    /\ registry = {LocalTransport}
    /\ kv = <<>>

(* ----------------------- administrative CRUD --------------------------- *)
\* Interval is a time.Duration, an int64: what a stored Monitor can hold
\* includes zero and negative values
AnyIntervals == Intervals \cup {0, -1}

\* the collections of the Monitors of LoopIds, each with any interval
AnyStores ==
    { {Fresh(id, f[id]) : id \in LoopIds} : f \in [LoopIds -> AnyIntervals] }

\* Loop is on one of the collections stores, at position pos, with the
\* transports reg registered and the Hosts hs stored
Started(stores, pos, reg, hs) ==
    /\ store \in stores
    /\ nextId = Cardinality(LoopIds) + 1
    /\ assigned = [i \in 1..Cardinality(LoopIds) |-> i]
    /\ t = ZeroTime
    /\ loop = pos
    /\ monitors = <<>>
    /\ idx = 0
    /\ inFlight = {}
    /\ execs = {}
    /\ lastOp = Op("NewScheduler", 0, ZeroTime, Nil, <<>>)
    /\ emitted = <<>>
    /\ written = <<>>
    /\ dispatched = {}
    /\ caller = NoCall
    /\ hosts = hs
    /\ registry = reg
    /\ kv = <<>>
\* the collections of one Monitor
OneStores == { {Fresh(1, iv)} : iv \in Intervals }

\* Loop polls one Monitor while an administrator edits and reads it
RoundTripInit == Started(OneStores, "wait", {LocalTransport}, {LocalHostId})

\* Loop polls a collection that holds Monitors of any interval
AnyInit == Started(AnyStores, "wait", {LocalTransport}, {LocalHostId})

\* bson.NewObjectId
NewObjectId == nextId

\* Scheduler.UpdateMonitor: broadcast first, then replace the stored document
UpdateMonitor(mon, fail) ==
    /\ emitted' = <<Event("monchange", mon)>>
    /\ store' = IF fail THEN store ELSE UpdateId(store, mon.Id, mon)

\* the error UpdateMonitor returns
UpdateErr(mon, fail) ==
    IF fail \/ FindId(store, mon.Id) = {} THEN StoreError ELSE Nil
\* Scheduler.GetMonitor: the identifier string is validated and parsed, the
\* document is looked up; the label carries the Monitor returned
GetMonitor(id) ==
    /\ IF ~IsObjectIdHex(id)
       THEN lastOp' = Op("GetMonitor", 0, ZeroTime, ErrorInvalidId, <<>>)
       ELSE \E fail \in BOOLEAN :
              LET found == FindId(store, ObjectIdHex(id))
              IN  IF fail \/ found = {}
                  THEN lastOp' = Op("GetMonitor", ObjectIdHex(id), ZeroTime,
                                    StoreError, <<>>)
                  ELSE \E monitor \in found :
                         lastOp' = Op("GetMonitor", ObjectIdHex(id), ZeroTime,
                                      Nil, monitor)
    /\ emitted' = <<>>
    /\ written' = <<>>
    /\ UNCHANGED <<dispatched, caller, others, store, nextId, assigned, t, loop,
                   monitors, idx, inFlight, execs>>

\* AddMonitor without "mon.Id = bson.NewObjectId()": the caller's identifier
\* is kept
AddMonitorKeepId(mon) ==
    /\ Len(assigned) < MaxAdds
    /\ nextId' = nextId
    /\ assigned' = Append(assigned, mon.Id)
    /\ emitted' = <<Event("monadd", mon)>>
    /\ \E fail \in BOOLEAN :
         /\ store' = IF fail THEN store ELSE Insert(store, mon)
         /\ lastOp' = Op("AddMonitor", mon.Id, ZeroTime,
                         IF fail \/ FindId(store, mon.Id) # {}
                         THEN StoreError ELSE Nil, <<>>)
    /\ written' = <<>>
    /\ UNCHANGED <<dispatched, caller, others, t, loop, monitors, idx, inFlight, execs>>

\* Scheduler.AddMonitor
AddMonitor(mon) ==
    /\ Len(assigned) < MaxAdds
    /\ LET m == [mon EXCEPT !.Id = NewObjectId]
       IN  /\ nextId' = nextId + 1
           /\ assigned' = Append(assigned, m.Id)
           /\ emitted' = <<Event("monadd", m)>>
           /\ \E fail \in BOOLEAN :
                /\ store' = IF fail THEN store ELSE Insert(store, m)
                /\ lastOp' = Op("AddMonitor", m.Id, ZeroTime,
                                IF fail \/ FindId(store, m.Id) # {}
                                THEN StoreError ELSE Nil, <<>>)
    /\ written' = <<>>
    /\ UNCHANGED <<dispatched, caller, others, t, loop, monitors, idx, inFlight, execs>>

\* Scheduler.UpdateMonitor called by an administrator: a stored Monitor with
\* its interval edited
AdminUpdateMonitor(mon) ==
    /\ \E fail \in BOOLEAN :
         /\ UpdateMonitor(mon, fail)
         /\ lastOp' = Op("UpdateMonitor", mon.Id, ZeroTime,
                         UpdateErr(mon, fail), <<>>)
         /\ caller' = IF UpdateErr(mon, fail) = Nil
                      THEN [Id |-> mon.Id, mon |-> mon, replaced |-> FALSE]
                      ELSE caller
    /\ written' = <<>>
    /\ UNCHANGED <<dispatched, others, nextId, assigned, t, loop, monitors, idx, inFlight, execs>>

\* DeleteMonitor broadcasting before it validates, as AddMonitor and
\* UpdateMonitor broadcast before they touch the store
DeleteMonitorBroadcastFirst(id) ==
    /\ emitted' = <<Event("mondelete", id)>>
    /\ IF ~IsObjectIdHex(id)
       THEN /\ lastOp' = Op("DeleteMonitor", 0, ZeroTime, ErrorInvalidId, id)
            /\ store' = store
       ELSE \E fail \in BOOLEAN :
                 /\ store' = IF fail THEN store
                             ELSE RemoveId(store, ObjectIdHex(id))
                 /\ lastOp' = Op("DeleteMonitor", ObjectIdHex(id), ZeroTime,
                                 IF fail \/ FindId(store, ObjectIdHex(id)) = {}
                                 THEN StoreError ELSE Nil, id)
    /\ written' = <<>>
    /\ UNCHANGED <<dispatched, caller, others, nextId, assigned, t, loop, monitors, idx, inFlight, execs>>

\* Scheduler.DeleteMonitor
DeleteMonitor(id) ==
    /\ IF ~IsObjectIdHex(id)
       THEN /\ lastOp' = Op("DeleteMonitor", 0, ZeroTime, ErrorInvalidId, id)
            /\ emitted' = <<>>
            /\ store' = store
       ELSE /\ emitted' = <<Event("mondelete", id)>>
            /\ \E fail \in BOOLEAN :
                 /\ store' = IF fail THEN store
                             ELSE RemoveId(store, ObjectIdHex(id))
                 /\ lastOp' = Op("DeleteMonitor", ObjectIdHex(id), ZeroTime,
                                 IF fail \/ FindId(store, ObjectIdHex(id)) = {}
                                 THEN StoreError ELSE Nil, id)
    /\ written' = <<>>
    /\ UNCHANGED <<dispatched, caller, others, nextId, assigned, t, loop, monitors, idx, inFlight, execs>>

(* --------------------------- the polling loop -------------------------- *)
\* the error of s.GetHost(id): the Host is not stored, or the query failed
GetHostErr(id, fail) == IF fail \/ id \notin hosts THEN StoreError ELSE Nil

TransportNotFound == "localtransport plugin not found"

\* Loop before "ticker := time.Tick(...)": the local Host is looked up and,
\* on an error, built with the local transport and inserted. A transport that
\* is not registered is logged, and then p is the nil func of the map miss:
\* the call p() panics. The error of Insert is dropped.
LoopStart ==
    /\ loop = "start"
    /\ \E getFail \in BOOLEAN, insFail \in BOOLEAN :
         LET err == GetHostErr(LocalHostId, getFail)
             found == LocalTransport \in registry
         IN  IF err = Nil
             THEN /\ loop' = "wait"
                  /\ hosts' = hosts
                  /\ lastOp' = Op("LoopStart", 0, t, Nil, "present")
             ELSE IF ~found
             THEN /\ loop' = "panic"
                  /\ hosts' = hosts
                  /\ lastOp' = Op("LoopStart", 0, t, TransportNotFound, "panic")
             ELSE /\ loop' = "wait"
                  /\ hosts' = IF insFail THEN hosts ELSE hosts \cup {LocalHostId}
                  /\ lastOp' = Op("LoopStart", 0, t, err,
                                  IF insFail \/ LocalHostId \in hosts
                                  THEN "insert failed" ELSE "inserted")
    /\ emitted' = <<>>
    /\ written' = <<>>
    /\ UNCHANGED <<dispatched, caller, registry, kv, store, nextId, assigned, t,
                   monitors, idx, inFlight, execs>>

\* "for t := range ticker": the next tick is delivered
Tick ==
    /\ loop = "wait"
    /\ t + TickPeriod <= MaxTicks * TickPeriod
    /\ t' = t + TickPeriod
    /\ loop' = "fetch"
    /\ lastOp' = Op("Tick", 0, t', Nil, <<>>)
    /\ emitted' = <<>>
    /\ written' = <<>>
    /\ UNCHANGED <<dispatched, caller, others, store, nextId, assigned, monitors, idx, inFlight, execs>>
\* Fetch without the "continue": a failed query goes on to the scan
FetchNoContinue ==
    /\ loop = "fetch"
    /\ \E fail \in BOOLEAN :
         IF ~fail /\ store = {}
         THEN /\ loop' = "wait"
              /\ monitors' = <<>>
              /\ idx' = 0
              /\ lastOp' = Op("Fetch", 0, t, Nil, <<>>)
         ELSE /\ loop' = "scan"
              /\ monitors' = SortedDocs(store)
              /\ idx' = 1
              /\ lastOp' = Op("Fetch", 0, t, IF fail THEN StoreError ELSE Nil, <<>>)
    /\ emitted' = <<>>
    /\ written' = <<>>
    /\ UNCHANGED <<dispatched, caller, others, store, nextId, assigned, t, inFlight, execs>>

\* monitorCollection.Find(bson.M{}).All(&monitors), or "continue" on an error
Fetch ==
    /\ loop = "fetch"
    /\ \E fail \in BOOLEAN :
         IF fail \/ store = {}
         THEN /\ loop' = "wait"
              /\ monitors' = <<>>
              /\ idx' = 0
              /\ lastOp' = Op("Fetch", 0, t, IF fail THEN StoreError ELSE Nil, <<>>)
         ELSE /\ loop' = "scan"
              /\ monitors' = SortedDocs(store)
              /\ idx' = 1
              /\ lastOp' = Op("Fetch", 0, t, Nil, <<>>)
    /\ emitted' = <<>>
    /\ written' = <<>>
    /\ UNCHANGED <<dispatched, caller, others, store, nextId, assigned, t, inFlight, execs>>

\* the Monitor the scan is at
Mon == monitors[idx]

\* age := t.Sub(mon.LastCheck)
Age(mon) == Sub(t, mon.LastCheck)

\* wait := mon.NextCheck.Sub(t)
Wait(mon) == Sub(mon.NextCheck, t)

\* the in-flight lookup left out
FoundNever(id) == FALSE

\* _, found := inFlight[mon.Id]
Found(id) == id \in inFlight

\* age > mon.Interval*2 && wait < -mon.Interval
ColdStart(mon) == Age(mon) > mon.Interval * 2 /\ Wait(mon) < -mon.Interval
\* the due test with "<=": a Monitor is due at its NextCheck
DueInclusive(mon) == Wait(mon) <= 0

\* wait < 0
Due(mon) == Wait(mon) < 0

\* the end of one iteration of "for _, mon := range monitors"
NextMon ==
    IF idx = Len(monitors)
    THEN loop' = "wait" /\ idx' = 0 /\ monitors' = <<>>
    ELSE loop' = loop /\ idx' = idx + 1 /\ monitors' = monitors

\* if found { // skipping monitors in flight }
ScanSkip ==
    /\ loop = "scan"
    /\ Found(Mon.Id)
    /\ NextMon
    /\ lastOp' = Op("ScanSkip", Mon.Id, t, Nil, Mon)
    /\ emitted' = <<>>
    /\ written' = <<>>
    /\ UNCHANGED <<dispatched, caller, others, store, nextId, assigned, t, inFlight, execs>>

\* an off-by-one draw: the whole interval included
CheckInsInclusive(iv) == 0..iv

\* rand.Int63n(int64(mon.Interval))
CheckIns(iv) == 0..(iv - 1)

\* the cold-start branch: a new NextCheck, persisted with UpdateMonitor
ScanJitter ==
    /\ loop = "scan"
    /\ ~Found(Mon.Id)
    /\ ColdStart(Mon)
    /\ \E checkIn \in CheckIns(Mon.Interval), fail \in BOOLEAN :
         LET mon == [Mon EXCEPT !.NextCheck = Add(t, checkIn)]
         IN  /\ UpdateMonitor(mon, fail)
             /\ lastOp' = Op("ScanJitter", mon.Id, t, UpdateErr(mon, fail), Mon)
    /\ NextMon
    /\ written' = <<>>
    /\ UNCHANGED <<dispatched, others, nextId, assigned, t, inFlight, execs>>

\* the goroutine started for mon by the tick at time T
NewExec(mon, T) ==
    [id |-> mon.Id, T |-> T, pc |-> "run", mon |-> mon, p |-> NoPoints,
     err |-> Nil]

\* the due branch without "inFlight[mon.Id] = true"
ScanDispatchNoMark ==
    /\ loop = "scan"
    /\ ~Found(Mon.Id)
    /\ ~ColdStart(Mon)
    /\ Due(Mon)
    /\ inFlight' = inFlight
    /\ execs' = execs \cup {NewExec(Mon, t)}
    /\ NextMon
    /\ lastOp' = Op("ScanDispatch", Mon.Id, t, Nil, Mon)
    /\ emitted' = <<>>
    /\ written' = <<>>
    /\ UNCHANGED <<caller, others, store, nextId, assigned, t>>

\* the due branch: mark in flight and start the goroutine
ScanDispatch ==
    /\ loop = "scan"
    /\ ~Found(Mon.Id)
    /\ ~ColdStart(Mon)
    /\ Due(Mon)
    /\ inFlight' = inFlight \cup {Mon.Id}
    /\ execs' = execs \cup {NewExec(Mon, t)}
    /\ NextMon
    /\ lastOp' = Op("ScanDispatch", Mon.Id, t, Nil, Mon)
    /\ emitted' = <<>>
    /\ written' = <<>>
    /\ UNCHANGED <<caller, others, store, nextId, assigned, t>>

\* none of the branches: the Monitor is not due
ScanIdle ==
    /\ loop = "scan"
    /\ ~Found(Mon.Id)
    /\ ~ColdStart(Mon)
    /\ ~Due(Mon)
    /\ NextMon
    /\ lastOp' = Op("ScanIdle", Mon.Id, t, Nil, Mon)
    /\ emitted' = <<>>
    /\ written' = <<>>
    /\ UNCHANGED <<dispatched, caller, others, store, nextId, assigned, t, inFlight, execs>>

(* ------------------------ a dispatched execution ----------------------- *)
Step(e, f) == execs' = (execs \ {e}) \cup {f}

\* host lookup, p, err := mon.Job.Run(host.Transport), mon.LastPoints = p and
\* mon.LastCheck = t.  t is the loop's variable, which the closure shares
\* with the loop: the read yields the tick the loop is at when Run returns
ExecRun(e) ==
    /\ e.pc = "run"
    /\ \E ok \in BOOLEAN :
         LET p == IF ok THEN "points" ELSE NoPoints
         IN  /\ Step(e, [e EXCEPT !.pc = "stampNext", !.p = p,
                                  !.err = IF ok THEN Nil ELSE JobError,
                                  !.mon.LastPoints = p,
                                  !.mon.LastCheck = t])
             /\ lastOp' = Op("ExecRun", e.id, e.T, IF ok THEN Nil ELSE JobError, <<>>)
    /\ emitted' = <<>>
    /\ written' = <<>>
    /\ UNCHANGED <<dispatched, caller, others, store, nextId, assigned, t, loop, monitors, idx, inFlight>>

\* mon.NextCheck = t.Add(mon.Interval): a second read of the shared t
ExecStampNext(e) ==
    /\ e.pc = "stampNext"
    /\ Step(e, [e EXCEPT !.pc = "update",
                         !.mon.NextCheck = Add(t, e.mon.Interval)])
    /\ lastOp' = Op("ExecStampNext", e.id, e.T, Nil, <<>>)
    /\ emitted' = <<>>
    /\ written' = <<>>
    /\ UNCHANGED <<dispatched, caller, others, store, nextId, assigned, t, loop, monitors, idx, inFlight>>

\* ExecUpdate with a "return" on the error of UpdateMonitor: the sink write is
\* left out
ExecUpdateCancel(e) ==
    /\ e.pc = "update"
    /\ \E fail \in BOOLEAN :
         /\ UpdateMonitor(e.mon, fail)
         /\ lastOp' = Op("ExecUpdate", e.id, e.T, UpdateErr(e.mon, fail), <<>>)
         /\ Step(e, [e EXCEPT !.pc = IF UpdateErr(e.mon, fail) = Nil
                                      THEN "sink" ELSE "clear"])
    /\ written' = <<>>
    /\ UNCHANGED <<dispatched, others, nextId, assigned, t, loop, monitors, idx, inFlight>>

\* err = s.UpdateMonitor(&mon), logged on failure
ExecUpdate(e) ==
    /\ e.pc = "update"
    /\ \E fail \in BOOLEAN :
         /\ UpdateMonitor(e.mon, fail)
         /\ lastOp' = Op("ExecUpdate", e.id, e.T, UpdateErr(e.mon, fail), <<>>)
    /\ Step(e, [e EXCEPT !.pc = "sink"])
    /\ written' = <<>>
    /\ UNCHANGED <<dispatched, others, nextId, assigned, t, loop, monitors, idx, inFlight>>
\* WritePoints with a "return" on its error: the goroutine ends before
\* delete(inFlight, mon.Id)
ExecWritePointsAbort(e) ==
    /\ e.pc = "sink"
    /\ written' = <<[id |-> e.id, p |-> e.p]>>
    /\ \E fail \in BOOLEAN :
         LET err == IF fail THEN SinkError ELSE Nil
         IN  /\ lastOp' = Op("ExecWritePoints", e.id, e.T, err, <<>>)
             /\ IF fail THEN execs' = execs \ {e}
                ELSE Step(e, [e EXCEPT !.pc = "clear"])
    /\ emitted' = <<>>
    /\ UNCHANGED <<dispatched, caller, others, store, nextId, assigned, t, loop, monitors, idx, inFlight>>

\* err = server.WritePoints(p), logged on failure
ExecWritePoints(e) ==
    /\ e.pc = "sink"
    /\ written' = <<[id |-> e.id, p |-> e.p]>>
    /\ \E fail \in BOOLEAN :
         LET err == IF fail THEN SinkError ELSE Nil
         IN  /\ lastOp' = Op("ExecWritePoints", e.id, e.T, err, <<>>)
             /\ Step(e, [e EXCEPT !.pc = "clear"])
    /\ emitted' = <<>>
    /\ UNCHANGED <<dispatched, caller, others, store, nextId, assigned, t, loop, monitors, idx, inFlight>>

\* delete(inFlight, mon.Id), and the goroutine returns
ExecClear(e) ==
    /\ e.pc = "clear"
    /\ inFlight' = inFlight \ {e.id}
    /\ execs' = execs \ {e}
    /\ lastOp' = Op("ExecClear", e.id, e.T, Nil, <<>>)
    /\ emitted' = <<>>
    /\ written' = <<>>
    /\ UNCHANGED <<dispatched, caller, others, store, nextId, assigned, t, loop, monitors, idx>>

(* ------------------------------ Next ----------------------------------- *)
\* rand.Int63n panics when its argument is not positive: the cold-start
\* branch of a Monitor whose Interval is zero or negative ends the process,
\* the loop and the goroutines with it
ScanPanic ==
    /\ loop = "scan"
    /\ ~Found(Mon.Id)
    /\ ColdStart(Mon)
    /\ Mon.Interval <= 0
    /\ loop' = "panic"
    /\ monitors' = <<>>
    /\ idx' = 0
    /\ inFlight' = {}
    /\ execs' = {}
    /\ lastOp' = Op("ScanPanic", Mon.Id, t, Nil, Mon)
    /\ emitted' = <<>>
    /\ written' = <<>>
    /\ UNCHANGED <<dispatched, caller, others, store, nextId, assigned, t>>

\* the polling loop and the executions it dispatches
Next ==
    \/ Tick
    \/ Fetch
    \/ ScanSkip
    \/ ScanJitter /\ UNCHANGED caller
    \/ ScanDispatch /\ UNCHANGED dispatched
    \/ ScanIdle
    \/ \E e \in execs : ExecRun(e)
    \/ \E e \in execs : ExecStampNext(e)
    \/ \E e \in execs : ExecUpdate(e) /\ UNCHANGED caller
    \/ \E e \in execs : ExecWritePoints(e)
    \/ \E e \in execs : ExecClear(e)

Spec == Init /\ [][Next]_vars

\* the steps of the goroutine of Monitor id
Exec(id) ==
    \E e \in execs :
        /\ e.id = id
        /\ (ExecRun(e) \/ ExecStampNext(e) \/ (ExecUpdate(e) /\ UNCHANGED caller)
              \/ ExecWritePoints(e) \/ ExecClear(e))

\* the Go scheduler runs every goroutine whose calls (Job.Run, the store, the
\* sink) return
FairSpec == Spec /\ \A id \in LoopIds : WF_vars(Exec(id))

\* the polling loop on Monitors of any interval
AnyNext == Next \/ ScanPanic

AnySpec == AnyInit /\ [][AnyNext]_vars
\* Loop from its first statement, with the local Host stored or not and the
\* local transport registered or not
StartInit ==
    \E reg \in SUBSET {LocalTransport}, hs \in SUBSET {LocalHostId} :
        Started(InitStores, "start", reg, hs)

StartNext == LoopStart \/ Next

StartSpec == StartInit /\ [][StartNext]_vars
\* an update of the Scheduler that succeeded replaces what the administrator
\* stored for that Monitor
SchedulerWrite ==
    caller' = IF lastOp'.err = Nil /\ lastOp'.id = caller.Id
              THEN [caller EXCEPT !.replaced = TRUE]
              ELSE caller

\* the polling loop, with an administrator who edits the interval of a stored
\* Monitor and reads Monitors back
RoundTripNext ==
    \/ Tick
    \/ Fetch
    \/ ScanSkip
    \/ ScanJitter /\ SchedulerWrite
    \/ ScanDispatch /\ UNCHANGED dispatched
    \/ ScanIdle
    \/ \E e \in execs : ExecRun(e)
    \/ \E e \in execs : ExecStampNext(e)
    \/ \E e \in execs : ExecUpdate(e) /\ SchedulerWrite
    \/ \E e \in execs : ExecWritePoints(e)
    \/ \E e \in execs : ExecClear(e)
    \/ \E d \in store : \E iv \in Intervals \ {d.Interval} :
         AdminUpdateMonitor([d EXCEPT !.Interval = iv])
    \/ \E id \in IdStrings : GetMonitor(id)

RoundTripSpec == RoundTripInit /\ [][RoundTripNext]_vars
(* ------------------------- MuninPluginRunner --------------------------- *)
Digits == <<"0", "1", "2", "3", "4", "5", "6", "7", "8", "9">>

IsDigit(c) == \E i \in 1..Len(Digits) : Digits[i] = c

\* the text " value " part of the pattern, after the one character "." matches
ValueWord == <<"v", "a", "l", "u", "e", " ">>

\* [0-9]+(\.([0-9])*)?
IsNumber(s) ==
    \E k \in 1..Len(s) :
        /\ \A i \in 1..k : IsDigit(s[i])
        /\ \/ k = Len(s)
           \/ /\ s[k + 1] = "."
              /\ \A i \in (k + 2)..Len(s) : IsDigit(s[i])

\* the lengths k of a key with which line matches
\* "^(.*).value ([0-9]+(\.([0-9])*)?)$": the key, any one character, "value ",
\* a number up to the end of the line
KeyLens(line) ==
    { k \in 0..Len(line) :
        /\ k + 1 + Len(ValueWord) < Len(line)
        /\ SubSeq(line, k + 2, k + 1 + Len(ValueWord)) = ValueWord
        /\ IsNumber(SubSeq(line, k + 2 + Len(ValueWord), Len(line))) }

\* len(matches) == 1
Matches(line) == KeyLens(line) # {}

\* the greedy (.*): the longest key
KeyLen(line) == CHOOSE k \in KeyLens(line) : \A j \in KeyLens(line) : j <= k

RECURSIVE DecVal(_)
DecVal(s) ==
    IF s = <<>> THEN 0
    ELSE 10 * DecVal(SubSeq(s, 1, Len(s) - 1))
         + ((CHOOSE i \in 1..Len(Digits) : Digits[i] = s[Len(s)]) - 1)

RECURSIVE StripZeros(_)
StripZeros(s) ==
    IF s # <<>> /\ s[Len(s)] = "0" THEN StripZeros(SubSeq(s, 1, Len(s) - 1))
    ELSE s

\* strconv.ParseFloat(text, 64) of a number of the pattern: the value of the
\* integer digits and the fraction digits that count
ParseFloat(s) ==
    LET k == CHOOSE k \in 1..Len(s) :
                 /\ \A i \in 1..k : IsDigit(s[i])
                 /\ k = Len(s) \/ s[k + 1] = "."
    IN  [int |-> DecVal(SubSeq(s, 1, k)),
         frac |-> StripZeros(SubSeq(s, k + 2, Len(s)))]

\* keyValue{key: matches[0][1], value: value}
KeyValue(line) ==
    [key |-> SubSeq(line, 1, KeyLen(line)),
     value |-> ParseFloat(SubSeq(line, KeyLen(line) + 2 + Len(ValueWord),
                                 Len(line)))]

RECURSIVE Scan(_, _)
\* the loop of Gather over the lines: every matching line is appended to kv
Scan(acc, lines) ==
    IF lines = <<>> THEN acc
    ELSE Scan(IF Matches(Head(lines)) THEN Append(acc, KeyValue(Head(lines)))
              ELSE acc,
              Tail(lines))

\* lines a command prints: "a.value 1", "d.value 7.", "bb_value 2.50" (the
\* pattern's "." is any character), and "c.value x", which has no number
Lines ==
    { <<"a", ".", "v", "a", "l", "u", "e", " ", "1">>,
      <<"d", ".", "v", "a", "l", "u", "e", " ", "7", ".">>,
      <<"b", "b", "_", "v", "a", "l", "u", "e", " ", "2", ".", "5", "0">>,
      <<"c", ".", "v", "a", "l", "u", "e", " ", "x">> }

\* the outputs of transport.Exec: up to MaxLines lines
Outputs == UNION { [1..n -> Lines] : n \in 0..MaxLines }

\* the Prefix a runner is configured with
Prefixes == { <<>>, <<"p">> }

\* MuninPluginRunner.GetPoints: one point per element of kv
GetPoints(prefix) ==
    [i \in 1..Len(kv) |->
        [key |-> IF prefix # <<>> THEN prefix \o <<".">> \o kv[i].key
                 ELSE kv[i].key,
         value |-> kv[i].value]]

\* MuninPluginRunner.Gather
Gather(output) ==
    /\ Len(kv) + MaxLines <= MaxKv
    /\ \E fail \in BOOLEAN :
         IF fail
         THEN /\ kv' = kv
              /\ lastOp' = Op("Gather", 0, ZeroTime, StoreError, <<>>)
         ELSE /\ kv' = Scan(kv, output)
              /\ lastOp' = Op("Gather", 0, ZeroTime, Nil, output)
    /\ emitted' = <<>>
    /\ written' = <<>>
    /\ UNCHANGED <<dispatched, caller, hosts, registry, store, nextId, assigned,
                   t, loop, monitors, idx, inFlight, execs>>

\* one runner, gathering again and again
MuninNext == \E output \in Outputs : Gather(output)

MuninSpec == AdminInit /\ [][MuninNext]_vars
\* the dispatch of Mon is recorded as the latest of its Monitor
Record ==
    dispatched' = {d \in dispatched : d[1] # Mon.Id}
                     \cup {<<Mon.Id, Mon.NextCheck>>}

\* the polling loop with the history of its dispatches
HistoryNext ==
    \/ Tick
    \/ Fetch
    \/ ScanSkip
    \/ ScanJitter /\ UNCHANGED caller
    \/ ScanDispatch /\ Record
    \/ ScanIdle
    \/ \E e \in execs : ExecRun(e)
    \/ \E e \in execs : ExecStampNext(e)
    \/ \E e \in execs : ExecUpdate(e) /\ UNCHANGED caller
    \/ \E e \in execs : ExecWritePoints(e)
    \/ \E e \in execs : ExecClear(e)

HistorySpec == Init /\ [][HistoryNext]_vars
\* the store answered the step: no query or update failed
Persisted == lastOp'.err # StoreError

\* the polling loop on a store that never fails, with the history of its
\* dispatches; Jobs and sink writes may still fail
ReliableNext ==
    \/ Tick
    \/ Fetch /\ Persisted
    \/ ScanSkip
    \/ ScanJitter /\ Persisted /\ UNCHANGED caller
    \/ ScanDispatch /\ Record
    \/ ScanIdle
    \/ \E e \in execs : ExecRun(e)
    \/ \E e \in execs : ExecStampNext(e)
    \/ \E e \in execs : ExecUpdate(e) /\ Persisted /\ UNCHANGED caller
    \/ \E e \in execs : ExecWritePoints(e)
    \/ \E e \in execs : ExecClear(e)

ReliableSpec == Init /\ [][ReliableNext]_vars

\* the administrative operations on the Monitor collection
AdminNext ==
    \/ \E iv \in Intervals : AddMonitor(Fresh(0, iv))
    \/ \E d \in store : \E iv \in Intervals \ {d.Interval} :
         AdminUpdateMonitor([d EXCEPT !.Interval = iv])
    \/ \E id \in IdStrings : DeleteMonitor(id)

AdminSpec == AdminInit /\ [][AdminNext]_vars

\* the administrative operations with any Interval a caller can pass:
\* AddMonitor and UpdateMonitor store the Monitor they are given
AdminAnyNext ==
    \/ \E iv \in AnyIntervals : AddMonitor(Fresh(0, iv))
    \/ \E d \in store : \E iv \in AnyIntervals \ {d.Interval} :
         AdminUpdateMonitor([d EXCEPT !.Interval = iv])
    \/ \E id \in IdStrings : DeleteMonitor(id)

AdminAnySpec == AdminInit /\ [][AdminAnyNext]_vars

(* ---------------------------- properties ------------------------------- *)
ScanOps == {"ScanSkip", "ScanJitter", "ScanDispatch", "ScanIdle"}

\* the stored record of Monitor id, if any
Stored(id) == FindId(store, id)

\* the last step was the scan of a Monitor that was not in flight
ScannedIdle == lastOp.op \in ScanOps \ {"ScanSkip"}

\* C1: at every instant at most one dispatched execution per Monitor
\* identifier has started and not yet removed its in-flight marker, and the
\* in-flight set is exactly the set of identifiers of such executions.
C1_OneExecutionPerMonitor ==
    /\ \A e1 \in execs : \A e2 \in execs : e1.id = e2.id => e1 = e2
    /\ inFlight = {e.id : e \in execs}

\* C1 witness: both Monitors are executing while a later tick scans one of them
C1_Witness ==
    /\ Cardinality(execs) = 2
    /\ lastOp.op = "ScanSkip"
    /\ \E e \in execs : e.T < lastOp.T

\* C2 as stated: a Monitor not in flight with LastCheck zero and NextCheck
\* before now is not dispatched by the tick; its stored NextCheck becomes a
\* value in [now, now+interval) and its LastCheck stays zero (the store
\* accepting the update).
C2_Original ==
    (/\ ScannedIdle
     /\ lastOp.arg.LastCheck = ZeroTime
     /\ Sub(lastOp.arg.NextCheck, lastOp.T) < 0)
    => /\ lastOp.op = "ScanJitter"
       /\ lastOp.err = Nil =>
            \A d \in Stored(lastOp.id) :
               /\ d.LastCheck = ZeroTime
               /\ lastOp.T <= d.NextCheck
               /\ d.NextCheck < lastOp.T + d.Interval

\* C2 amended: a Monitor not in flight with LastCheck zero and NextCheck more
\* than one interval before now is not dispatched by the tick; the tick calls
\* UpdateMonitor with the snapshot record in which only NextCheck is changed,
\* to a value in [now, now+interval), and when the update succeeds that
\* record, its LastCheck still zero, is the stored one.
C2_ColdStart ==
    (/\ ScannedIdle
     /\ lastOp.arg.LastCheck = ZeroTime
     /\ Sub(lastOp.arg.NextCheck, lastOp.T) < -lastOp.arg.Interval)
    => /\ lastOp.op = "ScanJitter"
       /\ \A e \in execs : ~(e.id = lastOp.id /\ e.T = lastOp.T)
       /\ Len(emitted) = 1
       /\ emitted[1].name = "monchange"
       /\ emitted[1].data.LastCheck = ZeroTime
       /\ emitted[1].data =
            [lastOp.arg EXCEPT !.NextCheck = emitted[1].data.NextCheck]
       /\ lastOp.T <= emitted[1].data.NextCheck
       /\ emitted[1].data.NextCheck < lastOp.T + lastOp.arg.Interval
       /\ lastOp.err = Nil => Stored(lastOp.id) = {emitted[1].data}

\* C2 witness: a cold-start update of a never-checked Monitor that succeeded,
\* with an offset other than zero
C2_Witness ==
    /\ lastOp.op = "ScanJitter"
    /\ lastOp.err = Nil
    /\ lastOp.arg.LastCheck = ZeroTime
    /\ \E d \in Stored(lastOp.id) : d.NextCheck > lastOp.T

\* C3 as stated: after an execution dispatched by the tick at T ran its Job
\* successfully and its update was persisted, the stored record has
\* LastCheck = T and NextCheck = T + interval.
C3_Advancement ==
    \A e \in execs :
        (/\ lastOp.op = "ExecUpdate"
         /\ lastOp.err = Nil
         /\ e.id = lastOp.id
         /\ e.pc = "sink"
         /\ e.err = Nil)
        => \A d \in Stored(e.id) :
             d.LastCheck = e.T /\ d.NextCheck = e.T + d.Interval

\* C4: the scan of a Monitor that is in the in-flight set dispatches nothing,
\* leaves the store and the in-flight set as they are, broadcasts nothing and
\* writes nothing to the sink, whatever the snapshot shows.
C4_SkipInFlight ==
    [][(/\ loop = "scan"
        /\ Mon.Id \in inFlight
        /\ <<loop, idx>>' # <<loop, idx>>)
       => (/\ store' = store
           /\ execs' = execs
           /\ inFlight' = inFlight
           /\ emitted' = <<>>
           /\ written' = <<>>)]_vars

\* C4 witness: a tick skipped a Monitor in flight that its snapshot shows
\* overdue
C4_Witness ==
    /\ lastOp.op = "ScanSkip"
    /\ lastOp.id \in inFlight
    /\ Sub(lastOp.arg.NextCheck, lastOp.T) < 0

\* C5: every Monitor identifier in the in-flight set is eventually removed
\* from it, whether the Job, the update or the sink write fails or not.
C5_MarkerCleared ==
    \A id \in LoopIds : (id \in inFlight) ~> (id \notin inFlight)

\* C5 witness: an execution whose Job failed and whose sink write failed has
\* reached the removal of its marker
C5_Witness ==
    /\ lastOp.op = "ExecWritePoints"
    /\ lastOp.err = SinkError
    /\ \E e \in execs : e.id = lastOp.id /\ e.pc = "clear" /\ e.err = JobError

\* the stored record of a Monitor whose last check failed
FailedCheck(d) == d.LastCheck # ZeroTime /\ d.LastPoints = NoPoints

\* C6 as stated: an execution whose Job failed persists LastCheck = T and
\* NextCheck = T + interval, and the Monitor is dispatched again only by a
\* tick later than that NextCheck.
C6_FailedCheckAdvances ==
    /\ \A e \in execs :
         (/\ lastOp.op = "ExecUpdate"
          /\ lastOp.err = Nil
          /\ e.id = lastOp.id
          /\ e.pc = "sink"
          /\ e.err = JobError)
         => \A d \in Stored(e.id) :
              d.LastCheck = e.T /\ d.NextCheck = e.T + d.Interval
    /\ lastOp.op = "ScanDispatch"
         => \A d \in Stored(lastOp.id) :
              FailedCheck(d) => lastOp.T > d.NextCheck

\* C7 as stated: every stored Monitor with a completed check has
\* NextCheck = LastCheck + interval.
C7_NextIsLastPlusInterval ==
    \A d \in store :
        d.LastCheck # ZeroTime => d.NextCheck = d.LastCheck + d.Interval

\* C8 as stated: the stored LastCheck and NextCheck of a Monitor never move
\* backwards.
C8_Monotonic ==
    [][\A d \in store : \A f \in store' :
         d.Id = f.Id =>
            /\ Sub(f.LastCheck, d.LastCheck) >= 0
            /\ Sub(f.NextCheck, d.NextCheck) >= 0]_vars

\* C9: DeleteMonitor with a malformed identifier returns ErrorInvalidId,
\* leaves the Monitor collection as it is and broadcasts nothing.
C9_MalformedDelete ==
    [][(lastOp'.op = "DeleteMonitor" /\ lastOp'.arg \in Malformed)
       => (/\ lastOp'.err = ErrorInvalidId
           /\ store' = store
           /\ emitted' = <<>>)]_vars

\* C9 witness: a malformed delete returned on a collection that holds Monitors
C9_Witness ==
    /\ lastOp.op = "DeleteMonitor"
    /\ lastOp.arg \in Malformed
    /\ lastOp.err = ErrorInvalidId
    /\ Cardinality(store) = MaxAdds

\* C10: every AddMonitor assigns an identifier that no earlier add assigned and
\* broadcasts exactly one "monadd" carrying the Monitor with that identifier;
\* the stored Monitors have pairwise distinct identifiers.
C10_DistinctIds ==
    /\ \A i \in 1..Len(assigned) : \A j \in 1..Len(assigned) :
         i # j => assigned[i] # assigned[j]
    /\ lastOp.op = "AddMonitor"
         => /\ Len(emitted) = 1
            /\ emitted[1].name = "monadd"
            /\ emitted[1].data.Id = assigned[Len(assigned)]
            /\ lastOp.id = assigned[Len(assigned)]
    /\ \A d \in store : \A f \in store : d.Id = f.Id => d = f

\* C10 witness: the last of several adds, all of them stored
C10_Witness ==
    /\ lastOp.op = "AddMonitor"
    /\ Len(assigned) = MaxAdds
    /\ Cardinality(store) = MaxAdds
\* C11 as stated: GetMonitor(M.id) after UpdateMonitor(M) returns a record
\* equal to M in every field, also when the loop runs ticks and executions
\* for that Monitor around the two calls.
C11_Original ==
    (/\ lastOp.op = "GetMonitor"
     /\ lastOp.err = Nil
     /\ caller.Id = lastOp.id)
    => lastOp.arg = caller.mon

\* C11 amended: GetMonitor(M.id) after an UpdateMonitor(M) that succeeded
\* returns a record equal to M in every field, provided no update of the
\* Scheduler for that Monitor (a cold-start update or the write-back of an
\* execution) succeeded after the UpdateMonitor(M); ticks and executions may
\* run around the two calls.
C11_RoundTrip ==
    (/\ lastOp.op = "GetMonitor"
     /\ lastOp.err = Nil
     /\ caller.Id = lastOp.id
     /\ ~caller.replaced)
    => lastOp.arg = caller.mon

\* C11 witness: a Monitor read back while its execution, dispatched before
\* the administrator's update, has not yet written back
C11_Witness ==
    /\ lastOp.op = "GetMonitor"
    /\ lastOp.err = Nil
    /\ caller.Id = lastOp.id
    /\ ~caller.replaced
    /\ \E e \in execs :
         e.id = lastOp.id /\ e.pc = "update" /\ e.mon.Interval # caller.mon.Interval

\* C12: a tick whose snapshot query fails processes no Monitor: it
\* dispatches nothing, makes no cold-start update, leaves the in-flight set as
\* it is, and the loop waits for the next tick; a Monitor is scanned only out
\* of a snapshot that was fetched.
C12_FailedFetch ==
    [][/\ (lastOp'.op = "Fetch" /\ lastOp'.err = StoreError)
          => (/\ loop' = "wait"
              /\ monitors' = <<>>
              /\ store' = store
              /\ execs' = execs
              /\ inFlight' = inFlight
              /\ emitted' = <<>>
              /\ written' = <<>>)
       /\ lastOp'.op \in ScanOps => (loop = "scan" /\ monitors # <<>>)
       /\ (loop = "wait" /\ loop' # "wait")
          => (loop' = "fetch" /\ t' = t + TickPeriod)]_vars

\* C12 witness: the query failed at a tick at which a stored Monitor that is
\* not in flight was overdue, while another execution was running
C12_Witness ==
    /\ lastOp.op = "Fetch"
    /\ lastOp.err = StoreError
    /\ loop = "wait"
    /\ execs # {}
    /\ \E d \in store : d.Id \notin inFlight /\ Sub(d.NextCheck, t) < 0

\* C13 as stated: no Monitor ends the loop: whatever a Job, an update or a
\* sink write returns and whatever the fields of a stored Monitor are, a
\* non-positive interval included, the loop goes on to later ticks.
C13_LoopSurvives ==
    /\ loop \in {"wait", "fetch", "scan"}
    /\ lastOp.op \in ScanOps
         => (loop = "wait" \/ (loop = "scan" /\ idx \in 1..Len(monitors)))

\* C14 as stated: at Loop startup the reserved local Host is inserted once
\* if it is absent and not inserted if it is present (the store answering);
\* when the local Transport cannot be resolved the failure is logged and the
\* tick loop still starts.
C14_Startup ==
    [][(loop = "start" /\ loop' # "start")
       => /\ loop' = "wait"
          /\ LocalHostId \in hosts => hosts' = hosts
          /\ (LocalHostId \notin hosts /\ lastOp'.arg = "inserted")
               => hosts' = {LocalHostId}
          /\ (LocalHostId \notin hosts /\ LocalTransport \notin registry)
               => lastOp'.err = TransportNotFound]_vars

\* C15 as stated: after any sequence of AddMonitor and UpdateMonitor calls
\* every stored Monitor has an interval greater than zero.
C15_PositiveIntervals ==
    \A d \in store : d.Interval > 0

\* C16 as stated: after any sequence of Gather calls on one runner, GetPoints
\* returns exactly one point per "<key>.value <number>" line of the output the
\* most recent Gather read, in the order of the lines.
C16_PointsOfLastGather ==
    (lastOp.op = "Gather" /\ lastOp.err = Nil)
    => \A prefix \in Prefixes :
         LET lines == SelectSeq(lastOp.arg, Matches)
             points == GetPoints(prefix)
         IN  /\ Len(points) = Len(lines)
             /\ \A i \in 1..Len(lines) :
                  points[i].value = KeyValue(lines[i]).value

\* C17: a Monitor that is not in flight and not in the cold-start case is
\* dispatched by the tick at t exactly when t is later than the NextCheck of
\* its snapshot record, never with t <= NextCheck; the dispatch starts an
\* execution for it, and the same tick goes on to scan the Monitors after it.
C17_DueDispatch ==
    /\ lastOp.op \in {"ScanDispatch", "ScanIdle"}
         => (lastOp.op = "ScanDispatch" <=> lastOp.T > lastOp.arg.NextCheck)
    /\ lastOp.op = "ScanDispatch"
         => /\ \E e \in execs : e.id = lastOp.id /\ e.T = lastOp.T /\ e.pc = "run"
            /\ (\E d \in store : d.Id > lastOp.id)
                 => (loop = "scan" /\ Mon.Id > lastOp.id /\ t = lastOp.T)

\* C17 witness: one tick dispatched both Monitors, one after the other
C17_Witness ==
    /\ lastOp.op = "ScanDispatch"
    /\ Cardinality({e \in execs : e.T = lastOp.T /\ e.pc = "run"}) = 2
    /\ t = lastOp.T

\* the positions of an execution, in order
PcOrder == <<"run", "stampNext", "update", "sink", "clear">>

PcIndex(pc) == CHOOSE i \in 1..Len(PcOrder) : PcOrder[i] = pc

\* C18: every dispatched execution makes one update attempt and then one sink
\* write attempt, both before its marker is removed: it moves through its
\* positions one at a time and never back; the step out of "update" is the one
\* UpdateMonitor call and goes to "sink" whatever the update returned; the step
\* out of "sink" is the one WritePoints call, with the points of that
\* execution, and goes to the removal of the marker whatever the write
\* returned; the marker is present up to then and removed from there only.
C18_UpdateThenSink ==
    [][/\ \A e \in execs : \A f \in execs' :
            f.id = e.id =>
               /\ PcIndex(f.pc) \in {PcIndex(e.pc), PcIndex(e.pc) + 1}
               /\ (e.pc = "update" /\ f.pc = "sink")
                    <=> (lastOp'.op = "ExecUpdate" /\ lastOp'.id = e.id)
               /\ (e.pc = "update" /\ f.pc = "sink")
                    => emitted' = <<Event("monchange", e.mon)>>
               /\ (e.pc = "sink" /\ f.pc = "clear")
                    <=> (lastOp'.op = "ExecWritePoints" /\ lastOp'.id = e.id)
               /\ (e.pc = "sink" /\ f.pc = "clear")
                    => written' = <<[id |-> e.id, p |-> e.p]>>
       /\ \A e \in execs :
            /\ e.id \in inFlight
            /\ (e.id \notin inFlight' \/ \A f \in execs' : f.id # e.id)
                 => (e.pc = "clear" /\ lastOp'.op = "ExecClear")
       /\ lastOp'.op \notin {"ExecUpdate", "ScanJitter"}
            => (emitted' = <<>> /\ store' = store)
       /\ lastOp'.op # "ExecWritePoints" => written' = <<>>]_vars

\* C18 witness: an execution whose update failed is at its sink write, its
\* marker still present
C18_Witness ==
    /\ lastOp.op = "ExecUpdate"
    /\ lastOp.err = StoreError
    /\ lastOp.id \in inFlight
    /\ \E e \in execs : e.id = lastOp.id /\ e.pc = "sink" /\ e.p # NoPoints

\* C19 as stated: no Monitor is dispatched twice for the same scheduled
\* time: a dispatch of a Monitor finds a NextCheck later than the one its
\* previous dispatch found, under every interleaving of the snapshot fetch,
\* the in-flight check and the completion of the earlier execution, and also
\* when the update of that execution failed.
C19_NoRepeatedDispatch ==
    [][lastOp'.op = "ScanDispatch"
       => \A d \in dispatched :
            d[1] = lastOp'.id => lastOp'.arg.NextCheck > d[2]]_vars

\* the last tick of the run has finished its scan
LastTickDone ==
    /\ t = MaxTicks * TickPeriod
    /\ loop = "wait"
    /\ lastOp.op \in ScanOps

\* C20 as stated, over the ticks of a run: with the ticks delivered and the
\* store never failing, every Monitor of positive interval that the first
\* tick put in the cold-start branch has been dispatched when the last tick
\* has finished; it is not given a new NextCheck at every tick, whatever its
\* interval, intervals not longer than the tick period included.
C20_ColdStartDispatched ==
    LastTickDone
    => \A d \in store :
         d.Interval > 0 => \E x \in dispatched : x[1] = d.Id

\* C21 as stated: AddMonitor, UpdateMonitor and DeleteMonitor broadcast
\* "monadd", "monchange" or "mondelete" only if the matching insert, update
\* or remove succeeded and took effect on the Monitor collection.
C21_BroadcastOnlyOnSuccess ==
    [][(/\ lastOp'.op \in {"AddMonitor", "UpdateMonitor", "DeleteMonitor"}
        /\ emitted' # <<>>)
       => /\ lastOp'.err = Nil
          /\ emitted'[1].name = "monadd"
               => emitted'[1].data \in store' \ store
          /\ emitted'[1].name = "monchange"
               => emitted'[1].data \in store'
          /\ emitted'[1].name = "mondelete"
               => (/\ FindId(store, lastOp'.id) # {}
                   /\ FindId(store', lastOp'.id) = {})]_vars

====
